---- MODULE Spec2Model ----
(***************************************************************************)
(* notion2memos: the migration pipeline of internal/migrate, the state     *)
(* tracker of internal/config, the dispatch of internal/memos and the      *)
(* paginated, rate-limited fetcher of internal/notion.                     *)
(*                                                                         *)
(* Spec       the orchestrator: successive runs of Migrator.Migrate over   *)
(*            one source workspace, with the durable state file between    *)
(*            them and the reset command.                                  *)
(* SpecFilter filterPagesByTitle alone, over every list of pages and every *)
(*            non-empty list of titles within the bounds.                  *)
(* SpecSplit  createSplitMemos alone, over rendered texts longer than the  *)
(*            target's limit: the chunking loop, then one CreateMemo per   *)
(*            part.                                                        *)
(* SpecFetch  the cursor loop of SearchPages and RetrieveBlocks against a  *)
(*            source that pages its items in any way it likes.             *)
(* SpecLimit  doRequest and the client's token-bucket limiter on a         *)
(*            discrete clock.                                              *)
(* SpecTags   one run whose pages sit below collections and other pages:   *)
(*            getParentTagsCached with its two caches. SpecTagsFair adds   *)
(*            that the run goes on while it has a step to take.            *)
(* SpecSanitize sanitizeTag alone, on short strings, applied twice.        *)
(* SpecRender BlocksToMarkdown alone, block by block, over short lists of  *)
(*            blocks of every type.                                        *)
(* SpecChunk  the chunking loop of createSplitMemos turn by turn;          *)
(*            SpecChunkFair adds that the loop goes on.                    *)
(* SpecFetchLoose the cursor loop against a source that may report         *)
(*            has_more without a next cursor.                              *)
(***************************************************************************)
EXTENDS Integers, Sequences, FiniteSets, TLC

\* ---------------------------------------------------------------- bounds

\* Largest number of documents the source workspace holds.
MaxDocs == 2
\* Largest number of memos one document's rendered markdown is dispatched as.
MaxParts == 2
\* Number of migrate commands issued in one behaviour.
MaxRuns == 2
\* Longest list of pages and longest list of titles filterPagesByTitle is given.
MaxFilterPages == 3
MaxFilterTitles == 2
\* Largest number of paragraph blocks of a page given to the splitter.
MaxParas == 3

\* ------------------------------------------------------------ characters

\* A string is a sequence of one-character strings; Go compares strings
\* byte by byte, so "N" and "n" are different and "N" is not "No".
Titles == { <<"N">>, <<"n">>, <<"N", "o">> }

\* Creation times of documents, in seconds.
Times == { 0, 5 }

\* --------------------------------------------------------- source workspace

DocIds == 1..MaxDocs

\* notion.Page as the orchestrator sees it.  parts is the number of memos the
\* page's rendered markdown needs: 0 when the page has no blocks (or renders
\* to ""), 1 when len(markdown) <= 8192, the number of chunks otherwise.
Page(i, t, c, n) == [ID |-> i, Title |-> t, CreatedTime |-> c, parts |-> n]

\* Titles of the documents of the source workspace.
DocTitles == { <<"N">>, <<"n">> }

Workspaces ==
    UNION { { w \in [1..n -> [ID : DocIds, Title : DocTitles,
                               CreatedTime : Times, parts : 0..MaxParts]] :
                \A i \in 1..n : w[i].ID = i } : n \in 1..MaxDocs }

\* ------------------------------------------------------------- variables

VARIABLES
    docs,       \* the pages the source's search returns, in source order
    stateFile,  \* ~/.notion2memos/state.json: [exists, valid, pages]
    outputDir,  \* ./dry-run-output: the set of file names in it
    memos,      \* the target service: number of notes per <<page id, part>>
    run,        \* migrate commands started so far
    pc,         \* where the current run stands
    opts,       \* MigrateOptions and the --dry-run flag of the current run
    state,      \* Migrator.state.ProcessedPages, the in-memory ProcessedSet
    pages,      \* Migrate's local pages after filtering
    idx,        \* position of Migrate's range loop in pages
    part,       \* createSplitMemos' partNumber, the part dispatched next
    loaded,     \* history: the ProcessedSet LoadState returned to this run
    fetched,    \* history: ids RetrieveBlocks was called for, this run
    sent,       \* history: parts of each page CreateMemo returned nil for, this run
    err,        \* history: which call made this run fail, "" while none did
    prev,       \* history: options and outcome of the run before this one
    splitIn,    \* createSplitMemos' arguments [content, pageTitle, createdTime]
    chunks,     \* createSplitMemos' local parts, the chunks of content
    delivered,  \* history: the [content, createdTime] CreateMemo returned nil for
    remaining,  \* createSplitMemos' local remaining, where the loop is stepped
    source,     \* the items the source holds for a paginated fetch, in source order
    endpoint,   \* which paginated fetch runs: "search" or "blocks"
    cursor,     \* the fetch loop's local cursor, NoCursor while nil
    allItems,   \* the fetch loop's local allPages / allBlocks
    response,   \* the response being handled: [results, next_cursor, has_more]
    requests,   \* history: the start cursors of the requests sent, in order
    now,        \* the clock, in ticks
    tokens,     \* limiter.tokens, in units of 1/TicksPerToken of a token
    last,       \* limiter.last, when tokens was last updated
    timeToAct,  \* when the reservation of the pending Wait may act
    kind,       \* the request doRequest is handling
    grants,     \* history: the times the permits were granted for
    sends,      \* history: the times the requests went out
    graph,          \* the source's pages: the parent reference of each page id
    pageCache,      \* Migrator.pageCache: the page ids cached
    databaseCache,  \* Migrator.databaseCache: the database ids cached
    tags,           \* getParentTagsCached's local tags
    currentPageID,  \* getParentTagsCached's local currentPageID, NoId for ""
    hops,           \* getParentTagsCached's loop counter i
    lookupFailed,   \* history: a parent or database fetch failed in this resolution
    warnings,       \* the log: ids of the pages a tag warning was printed for
    calls,          \* history: the network calls of the run, [call, id, ok]
    used,           \* history: the [id, tags, lookupFailed] of the pages dispatched
    emptyPages,     \* the source's pages that have no content blocks
    tagIn,      \* sanitizeTag's argument
    tagOut,     \* what sanitizeTag returned for tagIn
    tagTwice,   \* what sanitizeTag returned for tagOut
    renderIn,   \* BlocksToMarkdown's arguments [blocks, pageTitle]
    md,         \* BlocksToMarkdown's strings.Builder md
    blockIdx,   \* position of BlocksToMarkdown's range loop in blocks
    markdown    \* what BlocksToMarkdown returned

\* The orchestrator's variables.
orchVars == << docs, stateFile, outputDir, memos, run, opts, state, pages,
               idx, loaded, fetched, sent, err, prev >>

\* The splitter's variables.
splitVars == << splitIn, chunks, delivered, remaining >>

\* The variables of a paginated fetch.
fetchVars == << source, endpoint, cursor, allItems, response, requests >>

\* The variables of the rate limiter and of doRequest.
limitVars == << now, tokens, last, timeToAct, kind, grants, sends >>

\* The source client's variables.
clientVars == << fetchVars, limitVars >>

\* The variables of tag resolution and of the run's network calls.
tagVars == << graph, pageCache, databaseCache, tags, currentPageID, hops,
              lookupFailed, warnings, calls, used, emptyPages >>

\* The variables of tag sanitizing.
sanVars == << tagIn, tagOut, tagTwice >>

\* The renderer's variables.
renderVars == << renderIn, md, blockIdx, markdown >>

vars == << pc, part, orchVars, splitVars, clientVars, tagVars, sanVars, renderVars >>

NoFile == [exists |-> FALSE, valid |-> TRUE, pages |-> {}]
NoOpts == [Resume |-> FALSE, FilterTitles |-> << >>, dryRun |-> FALSE]
NoRun  == [Resume |-> FALSE, FilterTitles |-> << >>, outcome |-> "idle"]
Notes  == DocIds \X (1..MaxParts)

\* ---------------------------------------------------------- state tracker

\* config.NewState / LoadState: the set read from a state file.
LoadState(file) == IF file.exists THEN file.pages ELSE {}

\* LoadState fails when the file exists and does not unmarshal.
LoadStateFails(file) == file.exists /\ ~file.valid

\* Mutant: the id is not added to the set.
MarkProcessedForgets(s, pageID) == s

\* State.MarkProcessed
MarkProcessed(s, pageID) == s \cup {pageID}

\* State.IsProcessed
IsProcessed(s, pageID) == pageID \in s

\* Mutant: the file is written with no id in it.
SaveStateWritesNoIds(s) == [exists |-> TRUE, valid |-> TRUE, pages |-> {}]

\* State.SaveState when os.WriteFile succeeds: the whole set replaces the file.
SaveState(s) == [exists |-> TRUE, valid |-> TRUE, pages |-> s]

\* os.WriteFile truncates the file on opening it; a write that then fails
\* leaves a file that is no JSON object.
TruncatedFile == [exists |-> TRUE, valid |-> FALSE, pages |-> {}]

\* ----------------------------------------------------------------- filters

\* titleSet of filterPagesByTitle: the map's keys.
TitleSet(titles) == { titles[i] : i \in 1..Len(titles) }

\* Mutant's helper: a title with its letters in lower case.
ToLower(t) == [i \in 1..Len(t) |-> IF t[i] = "N" THEN "n" ELSE t[i]]

RECURSIVE TitleLoopFoldsCase(_, _, _)
\* Mutant: titles are compared without regard to case.
TitleLoopFoldsCase(ps, titleSet, filtered) ==
    IF ps = << >> THEN filtered
    ELSE TitleLoopFoldsCase(Tail(ps), titleSet,
             IF \E t \in titleSet : ToLower(t) = ToLower(Head(ps).Title)
             THEN Append(filtered, Head(ps)) ELSE filtered)

RECURSIVE TitleLoop(_, _, _)
\* filterPagesByTitle's range loop: append the pages whose title is a key.
TitleLoop(ps, titleSet, filtered) ==
    IF ps = << >> THEN filtered
    ELSE TitleLoop(Tail(ps), titleSet,
                   IF Head(ps).Title \in titleSet
                   THEN Append(filtered, Head(ps)) ELSE filtered)

\* Migrator.filterPagesByTitle
filterPagesByTitle(ps, titles) ==
    IF Len(titles) = 0 THEN ps
    ELSE TitleLoop(ps, TitleSet(titles), << >>)

RECURSIVE ProcessedLoop(_, _, _)
\* filterProcessedPages' range loop: append the pages that are not processed.
ProcessedLoop(ps, s, filtered) ==
    IF ps = << >> THEN filtered
    ELSE ProcessedLoop(Tail(ps), s,
                       IF ~IsProcessed(s, Head(ps).ID)
                       THEN Append(filtered, Head(ps)) ELSE filtered)

\* Mutant: the resume filter keeps every page.
filterProcessedPagesKeepsAll(ps, s) == ps

\* Migrator.filterProcessedPages
filterProcessedPages(ps, s) == ProcessedLoop(ps, s, << >>)

\* Mutant: the resume filter is applied whether or not --resume was given.
FilterPagesAlwaysResumes(ps, o, s) ==
    LET byTitle == IF Len(o.FilterTitles) > 0
                   THEN filterPagesByTitle(ps, o.FilterTitles) ELSE ps
    IN  filterProcessedPages(byTitle, s)

\* Migrate, lines 65-79: the title filter, then the resume filter.
FilterPages(ps, o, s) ==
    LET byTitle == IF Len(o.FilterTitles) > 0
                   THEN filterPagesByTitle(ps, o.FilterTitles) ELSE ps
    IN  IF o.Resume THEN filterProcessedPages(byTitle, s) ELSE byTitle

\* ---------------------------------------------------------------- dispatch

\* saveDryRunMemo's file name: the part's timestamp to the second.
FileName(t) == t

\* Mutant: every part gets the time of the page.
PartCreatedTimeUnshifted(createdTime, k) == createdTime

\* createSplitMemos: part i (1-indexed here) is created at createdTime + 5(i-1) s.
PartCreatedTime(createdTime, k) == createdTime + 5 * (k - 1)

\* The splitter's variables where createSplitMemos is not looked into.
SplitterIdle ==
    /\ splitIn = [content |-> << >>, pageTitle |-> << >>, createdTime |-> 0]
    /\ chunks = << >>
    /\ delivered = << >>
    /\ remaining = << >>

\* A nil *string cursor; the cursors the source issues are item ids.
NoCursor == 0

\* No response being handled.
NoResponse == [results |-> << >>, next_cursor |-> NoCursor, has_more |-> FALSE]

\* The variables of a paginated fetch where none is looked into.
FetcherIdle ==
    /\ source = << >>
    /\ endpoint = ""
    /\ cursor = NoCursor
    /\ allItems = << >>
    /\ response = NoResponse
    /\ requests = << >>

\* The limiter's variables where the timing of requests is not looked into.
LimiterIdle ==
    /\ now = 0
    /\ tokens = 0
    /\ last = 0
    /\ timeToAct = 0
    /\ kind = ""
    /\ grants = << >>
    /\ sends = << >>

ClientIdle == FetcherIdle /\ LimiterIdle

\* The empty id "": no parent of that kind.
NoId == 0

\* The variables of tag resolution where it is not looked into.
TagsIdle ==
    /\ graph = << >>
    /\ pageCache = {}
    /\ databaseCache = {}
    /\ tags = << >>
    /\ currentPageID = NoId
    /\ hops = 0
    /\ lookupFailed = FALSE
    /\ warnings = {}
    /\ calls = << >>
    /\ used = << >>
    /\ emptyPages = {}

\* The variables of tag sanitizing where it is not looked into.
SanitizerIdle ==
    /\ tagIn = << >>
    /\ tagOut = << >>
    /\ tagTwice = << >>

\* The renderer's variables where BlocksToMarkdown is not looked into.
RendererIdle ==
    /\ renderIn = [blocks |-> << >>, pageTitle |-> << >>]
    /\ md = << >>
    /\ blockIdx = 0
    /\ markdown = << >>

\* --------------------------------------------------------------- the runs

Init ==
    /\ docs \in Workspaces
    /\ stateFile = NoFile
    /\ outputDir = {}
    /\ memos = [n \in Notes |-> 0]
    /\ run = 0
    /\ pc = "idle"
    /\ opts = NoOpts
    /\ state = {}
    /\ pages = << >>
    /\ idx = 0
    /\ part = 0
    /\ loaded = {}
    /\ fetched = << >>
    /\ sent = [i \in DocIds |-> 0]
    /\ err = ""
    /\ prev = NoRun
    /\ SplitterIdle
    /\ ClientIdle
    /\ TagsIdle
    /\ SanitizerIdle
    /\ RendererIdle

Stopped == pc \in {"idle", "done", "failed"}

\* The --filter-title lists a command is given.
FilterChoices == { << >> } \cup { << t >> : t \in DocTitles }

\* cmd/migrate.go: migrate.NewMigrator(cfg, dryRun), which loads the state.
NewMigrator(resume, filterTitles, dry) ==
    /\ Stopped
    /\ run < MaxRuns
    /\ run' = run + 1
    /\ opts' = [Resume |-> resume, FilterTitles |-> filterTitles, dryRun |-> dry]
    /\ prev' = [Resume |-> opts.Resume, FilterTitles |-> opts.FilterTitles,
                outcome |-> pc]
    /\ pages' = << >>
    /\ idx' = 0
    /\ part' = 0
    /\ fetched' = << >>
    /\ sent' = [i \in DocIds |-> 0]
    /\ IF LoadStateFails(stateFile)
       THEN /\ pc' = "failed"
            /\ err' = "load"
            /\ state' = {}
            /\ loaded' = {}
       ELSE /\ pc' = "search"
            /\ err' = ""
            /\ state' = LoadState(stateFile)
            /\ loaded' = LoadState(stateFile)
    /\ UNCHANGED << docs, stateFile, outputDir, memos, splitVars, clientVars, tagVars, sanVars, renderVars >>

\* Migrate, lines 56-61: SearchPages answers an error.
SearchFails ==
    /\ pc = "search"
    /\ pc' = "failed"
    /\ err' = "search"
    /\ UNCHANGED << docs, stateFile, outputDir, memos, run, opts, state, pages,
                    idx, part, loaded, fetched, sent, prev,
                    splitVars, clientVars, tagVars, sanVars, renderVars >>

\* Migrate, lines 56-87: SearchPages answers the pages; they are filtered.
Search ==
    /\ pc = "search"
    /\ pages' = FilterPages(docs, opts, state)
    /\ IF pages' = << >>
       THEN pc' = "done" /\ idx' = 0
       ELSE pc' = "fetch" /\ idx' = 1
    /\ UNCHANGED << docs, stateFile, outputDir, memos, run, opts, state,
                    part, loaded, fetched, sent, err, prev,
                    splitVars, clientVars, tagVars, sanVars, renderVars >>

\* Mutant: the error is dropped and the page is marked like a migrated one.
AfterMigratePageErrorMarks == "mark"

\* Mutant: the error is logged and the loop goes on with the next page.
AfterMigratePageErrorGoesOn == "save"

\* Mutant: the page that failed is tried again.
AfterMigratePageErrorRetries == "fetching"

\* Where Migrate goes when migratePage returns an error (lines 92-95).
AfterMigratePageError == "failed"

\* migratePage, lines 121-124: RetrieveBlocks answers an error.
RetrieveBlocksFails ==
    /\ pc = "fetch"
    /\ fetched' = Append(fetched, pages[idx].ID)
    /\ pc' = AfterMigratePageError
    /\ err' = "page"
    /\ UNCHANGED << docs, stateFile, outputDir, memos, run, opts, state, pages,
                    idx, part, loaded, sent, prev,
                    splitVars, clientVars, tagVars, sanVars, renderVars >>

\* migratePage, lines 121-176: the blocks arrive, are rendered, and the page
\* is skipped when it is empty.
RetrieveBlocks ==
    /\ pc = "fetch"
    /\ fetched' = Append(fetched, pages[idx].ID)
    /\ IF pages[idx].parts = 0
       THEN pc' = "mark" /\ part' = 0
       ELSE pc' = "dispatch" /\ part' = 1
    /\ UNCHANGED << docs, stateFile, outputDir, memos, run, opts, state, pages,
                    idx, loaded, sent, err, prev,
                    splitVars, clientVars, tagVars, sanVars, renderVars >>

\* Mutant: the dryRun argument is not looked at.
CallsTargetAlways(dryRun) == TRUE

\* Client.CreateMemo, lines 48-50: with dryRun the memo goes to
\* saveDryRunMemo and no request is made.
CallsTarget(dryRun) == ~dryRun

\* memos.Client.CreateMemo returns nil for the part: the note exists in the
\* target, or with --dry-run the file is written.
CreateMemo ==
    /\ pc = "dispatch"
    /\ LET p == pages[idx]
       IN  /\ IF ~CallsTarget(opts.dryRun)
              THEN /\ outputDir' = outputDir \cup
                         {FileName(PartCreatedTime(p.CreatedTime, part))}
                   /\ UNCHANGED memos
              ELSE /\ memos' = [memos EXCEPT ![<<p.ID, part>>] = @ + 1]
                   /\ UNCHANGED outputDir
           /\ sent' = [sent EXCEPT ![p.ID] = @ + 1]
           /\ IF part < p.parts
              THEN part' = part + 1 /\ pc' = "dispatch"
              ELSE part' = part /\ pc' = "mark"
    /\ UNCHANGED << docs, stateFile, run, opts, state, pages, idx, loaded,
                    fetched, err, prev,
                    splitVars, clientVars, tagVars, sanVars, renderVars >>

\* Mutant: the notes of the page are deleted when a part fails.
NotesAfterErrorRolledBack(notes, pageID) ==
    [n \in Notes |-> IF n[1] = pageID THEN 0 ELSE notes[n]]

\* createSplitMemos, lines 260-262, and migratePage, lines 191-199: the
\* error is returned; the notes in the target are left as they are.
NotesAfterError(notes, pageID) == notes

\* CreateMemo returns an error.  The POST was refused (nothing is created),
\* or the note was created and the call failed after it (the follow-up PATCH
\* of the display time, or decoding the response).
CreateMemoFails(created) ==
    /\ pc = "dispatch"
    /\ memos' = NotesAfterError(
                    IF created /\ CallsTarget(opts.dryRun)
                    THEN [memos EXCEPT ![<<pages[idx].ID, part>>] = @ + 1]
                    ELSE memos,
                    pages[idx].ID)
    /\ pc' = AfterMigratePageError
    /\ err' = "page"
    /\ UNCHANGED << docs, stateFile, outputDir, run, opts, state, pages, idx,
                    part, loaded, fetched, sent, prev,
                    splitVars, clientVars, tagVars, sanVars, renderVars >>

\* Migrate, line 98: m.state.MarkProcessed(page.ID)
Mark ==
    /\ pc = "mark"
    /\ state' = MarkProcessed(state, pages[idx].ID)
    /\ pc' = "save"
    /\ UNCHANGED << docs, stateFile, outputDir, memos, run, opts, pages, idx,
                    part, loaded, fetched, sent, err, prev,
                    splitVars, clientVars, tagVars, sanVars, renderVars >>

\* Migrate, lines 99-106: SaveState succeeds and the loop goes on.
Save ==
    /\ pc = "save"
    /\ stateFile' = SaveState(state)
    /\ IF idx < Len(pages)
       THEN idx' = idx + 1 /\ pc' = "fetch"
       ELSE idx' = idx /\ pc' = "done"
    /\ UNCHANGED << docs, outputDir, memos, run, opts, state, pages, part,
                    loaded, fetched, sent, err, prev,
                    splitVars, clientVars, tagVars, sanVars, renderVars >>

\* Migrate, lines 99-102: SaveState fails, before the file is opened
\* (MkdirAll, marshalling, opening) or while it is written.
SaveFails(truncated) ==
    /\ pc = "save"
    /\ stateFile' = IF truncated THEN TruncatedFile ELSE stateFile
    /\ pc' = "failed"
    /\ err' = "save"
    /\ UNCHANGED << docs, outputDir, memos, run, opts, state, pages, idx, part,
                    loaded, fetched, sent, prev,
                    splitVars, clientVars, tagVars, sanVars, renderVars >>

\* cmd/reset.go: config.ClearStateFile removes the state file.  The command
\* is its own process: nothing of the last run's memory is left.
Reset ==
    /\ Stopped
    /\ stateFile.exists
    /\ stateFile' = NoFile
    /\ pc' = "idle"
    /\ opts' = NoOpts
    /\ state' = {}
    /\ pages' = << >>
    /\ idx' = 0
    /\ part' = 0
    /\ loaded' = {}
    /\ fetched' = << >>
    /\ sent' = [i \in DocIds |-> 0]
    /\ err' = ""
    /\ UNCHANGED << docs, outputDir, memos, run, prev,
                    splitVars, clientVars, tagVars, sanVars, renderVars >>

Next ==
    \/ \E resume \in BOOLEAN, f \in FilterChoices, dry \in BOOLEAN :
           NewMigrator(resume, f, dry)
    \/ SearchFails
    \/ Search
    \/ RetrieveBlocksFails
    \/ RetrieveBlocks
    \/ CreateMemo
    \/ \E created \in BOOLEAN : CreateMemoFails(created)
    \/ Mark
    \/ Save
    \/ \E truncated \in BOOLEAN : SaveFails(truncated)
    \/ Reset

Spec == Init /\ [][Next]_vars

\* ------------------------------------------------- claims on the orchestrator

\* Ids of a sequence of pages, in order.
IdsOf(ps) == [j \in 1..Len(ps) |-> ps[j].ID]

\* The ids of the pages the loop of this run has completed: migratePage
\* returned nil, the id was marked and the state saved.
Completed == { pages[j].ID : j \in 1..(idx - 1) }

\* The loop of this run is at a page.
InLoop == pc \in {"fetch", "dispatch", "mark", "save"}

\* The second of two runs over the same documents with the same title filter,
\* the first with Resume=false and returning nil, the second with Resume=true
\* and started right after it (no reset between them).
ResumeRightAfterFullRun ==
    /\ run >= 2
    /\ prev.outcome = "done"
    /\ ~prev.Resume
    /\ opts.Resume
    /\ opts.FilterTitles = prev.FilterTitles

\* C1: a run with Resume=true that immediately follows a completed run with
\* Resume=false over the same documents and title filter processes zero
\* documents: its page list is empty, it fetches the blocks of none and
\* dispatches nothing, and it never enters the per-document loop.
C1_ResumeAfterFullRunProcessesNothing ==
    ResumeRightAfterFullRun =>
        /\ pages = << >>
        /\ fetched = << >>
        /\ \A i \in DocIds : sent[i] = 0
        /\ ~InLoop

\* C1 witness: such a second run has ended, the first having recorded at
\* least two documents.
C1_Witness ==
    /\ ResumeRightAfterFullRun
    /\ pc = "done"
    /\ Len(docs) >= 2
    /\ Cardinality(loaded) >= 2

\* C2: an id this run added to the ProcessedSet, in memory or in the state
\* file, is the id of a document all of whose parts were dispatched with
\* success in this run; a document with a part that was not dispatched is in
\* neither; and once the loop has left a document that it recorded, the
\* document is in the state file.
C2_NoPartialDocumentSuccess ==
    \A i \in 1..Len(docs) :
        /\ i \in state \ loaded => sent[i] = docs[i].parts
        /\ i \in LoadState(stateFile) \ loaded =>
               sent[i] = docs[i].parts /\ i \in state
        /\ (sent[i] < docs[i].parts /\ i \notin loaded) =>
               i \notin state /\ i \notin LoadState(stateFile)
        /\ (i \in state \ loaded /\ i \in Completed) =>
               i \in LoadState(stateFile) \/ err = "save"

\* C2 witness: the run failed with one of the two parts of a document
\* dispatched, after it had recorded another document.
C2_Witness ==
    /\ pc = "failed"
    /\ \E i, j \in 1..Len(docs) :
          /\ docs[i].parts = 2 /\ sent[i] = 1 /\ i \notin state
          /\ j \in LoadState(stateFile) \ loaded

\* C3: while the loop is at a document, and when migratePage has failed for
\* it, every document completed earlier in the run is in the in-memory set
\* and in a readable state file, so the resume filter of a later run removes
\* it.
C3_PersistedBeforeNextDocument ==
    (InLoop \/ err = "page") =>
        /\ ~LoadStateFails(stateFile)
        /\ \A i \in Completed :
              /\ i \in state
              /\ i \in LoadState(stateFile)
              /\ LET later == filterProcessedPages(docs, LoadState(stateFile))
                 IN  \A j \in 1..Len(later) : later[j].ID # i

\* C3 witness: the second document of a run failed after the first was
\* completed.
C3_Witness ==
    /\ err = "page"
    /\ idx = 2
    /\ Completed # {}
    /\ Completed \subseteq LoadState(stateFile)

\* C4: when migratePage fails for a document the run is Failed at once: the
\* blocks of no later document were fetched, nothing of a later document was
\* dispatched, the failing document was not marked, and the state file holds
\* the set loaded at the start plus the documents completed before it.
C4_ErrorAbortsRun ==
    err = "page" =>
        /\ pc = "failed"
        /\ fetched = IdsOf(SubSeq(pages, 1, idx))
        /\ \A j \in (idx + 1)..Len(pages) : sent[pages[j].ID] = 0
        /\ state = loaded \cup Completed
        /\ ~LoadStateFails(stateFile)
        /\ LoadState(stateFile) = loaded \cup Completed

\* C4 witness: the first of two documents failed, with nothing loaded.
C4_Witness ==
    /\ err = "page"
    /\ pc = "failed"
    /\ idx = 1
    /\ Len(pages) = 2
    /\ pages[1].ID \notin state

\* The run has filtered the pages search returned.
Filtered == pc \in {"fetch", "dispatch", "mark", "save", "done"}
                \/ err \in {"page", "save"}

\* A page passes the title allow-list of the run.
PassesTitles(p) ==
    \/ Len(opts.FilterTitles) = 0
    \/ \E k \in 1..Len(opts.FilterTitles) : opts.FilterTitles[k] = p.Title

\* C5: the pages a run processes are the fetched pages that pass the title
\* allow-list and, with Resume=true, whose id is not in the ProcessedSet
\* loaded at the start, in fetched order; with Resume=false the ProcessedSet
\* removes nothing.  The blocks are fetched in that order and a run that
\* returns nil fetched them all.
C5_FilterTitleThenResume ==
    Filtered =>
        LET expected(p) == PassesTitles(p) /\ (opts.Resume => p.ID \notin loaded)
        IN  /\ pages = SelectSeq(docs, expected)
            /\ Len(fetched) <= Len(pages)
            /\ fetched = SubSeq(IdsOf(pages), 1, Len(fetched))
            /\ pc = "done" => fetched = IdsOf(pages)

\* C5 witness: page 1 is in the loaded ProcessedSet, two pages are fetched,
\* and the run with Resume=true has migrated only page 2.
C5_Witness ==
    /\ pc = "done"
    /\ opts.Resume
    /\ loaded = {1}
    /\ Len(docs) = 2
    /\ fetched = << 2 >>

\* ------------------------------------------------ filterPagesByTitle alone

\* Lists of pages with any of the titles, the page at position i having id i.
PageLists ==
    UNION { { w \in [1..n -> [ID : 1..MaxFilterPages, Title : Titles,
                               CreatedTime : {0}, parts : {1}]] :
                \A i \in 1..n : w[i].ID = i } : n \in 0..MaxFilterPages }

\* Non-empty lists of titles.
TitleLists == UNION { [1..n -> Titles] : n \in 1..MaxFilterTitles }

InitFilter ==
    /\ docs \in PageLists
    /\ opts \in { [Resume |-> FALSE, FilterTitles |-> f, dryRun |-> FALSE] :
                    f \in TitleLists }
    /\ pc = "filter"
    /\ stateFile = NoFile
    /\ outputDir = {}
    /\ memos = [n \in Notes |-> 0]
    /\ run = 0
    /\ state = {}
    /\ pages = << >>
    /\ idx = 0
    /\ part = 0
    /\ loaded = {}
    /\ fetched = << >>
    /\ sent = [i \in DocIds |-> 0]
    /\ err = ""
    /\ prev = NoRun
    /\ SplitterIdle
    /\ ClientIdle
    /\ TagsIdle
    /\ SanitizerIdle
    /\ RendererIdle

\* Migrate, line 67: pages = m.filterPagesByTitle(pages, opts.FilterTitles)
ApplyTitleFilter ==
    /\ pc = "filter"
    /\ pages' = filterPagesByTitle(docs, opts.FilterTitles)
    /\ pc' = "filtered"
    /\ UNCHANGED << docs, stateFile, outputDir, memos, run, opts, state, idx,
                    part, loaded, fetched, sent, err, prev,
                    splitVars, clientVars, tagVars, sanVars, renderVars >>

NextFilter == ApplyTitleFilter

SpecFilter == InitFilter /\ [][NextFilter]_vars

\* Two strings are equal: the same length and the same character, in the same
\* case, at every position.
SameString(a, b) == Len(a) = Len(b) /\ \A i \in 1..Len(a) : a[i] = b[i]

\* The page's title is, as a whole, one of the titles supplied.
TitleSupplied(p) ==
    \E k \in 1..Len(opts.FilterTitles) : SameString(opts.FilterTitles[k], p.Title)

\* C6: for a non-empty list of titles filterPagesByTitle returns the pages
\* whose title equals one of the titles (whole string, case-sensitive), in
\* their original order, and no other page.
C6_TitleFilterExact ==
    pc = "filtered" =>
        /\ pages = SelectSeq(docs, TitleSupplied)
        /\ \A j \in 1..Len(pages) : TitleSupplied(pages[j])
        /\ \A i \in 1..Len(docs) :
              TitleSupplied(docs[i]) <=> \E j \in 1..Len(pages) : pages[j] = docs[i]
        /\ \A j, k \in 1..Len(pages) : j < k => pages[j].ID < pages[k].ID

\* C6 witness: of three pages titled "N", "n" and "No", the filter for "N"
\* returned the first alone.
C6_Witness ==
    /\ pc = "filtered"
    /\ opts.FilterTitles = << <<"N">> >>
    /\ Len(docs) = 3
    /\ docs[1].Title = <<"N">>
    /\ docs[2].Title = <<"n">>
    /\ docs[3].Title = <<"N", "o">>
    /\ pages = << docs[1] >>

\* ------------------------------------------------------- the content splitter

NL == "\n"
SP == " "

\* const memosMaxLength = 8192
memosMaxLength == 8192

\* const safeChunkSize = memosMaxLength - 200
safeChunkSize == memosMaxLength - 200

\* const splitMarker = "\n\n..."
splitMarker == << NL, NL, ".", ".", "." >>

\* const continuationMarker = "...\n\n"
continuationMarker == << ".", ".", ".", NL, NL >>

\* The string of n characters c.
Rep(c, n) == [i \in 1..n |-> c]

Digit(d) == << "0", "1", "2", "3", "4", "5", "6", "7", "8", "9" >>[d + 1]

RECURSIVE Itoa(_)
\* fmt's %d of a number that is not negative.
Itoa(n) == IF n < 10 THEN << Digit(n) >>
           ELSE Itoa(n \div 10) \o << Digit(n % 10) >>

\* Mutant: the text is always cut at safeChunkSize.
BreakPointAlwaysHard(str) == safeChunkSize

\* createSplitMemos, lines 201-209: the breaking point in remaining, which is
\* longer than safeChunkSize.  Go's remaining[breakPoint] is remaining[b + 1]
\* here; the scan goes down from safeChunkSize and stops above 0.
BreakPoint(str) ==
    LET newlines == { b \in 1..safeChunkSize : str[b + 1] = NL }
    IN  IF newlines = {} THEN safeChunkSize
        ELSE CHOOSE b \in newlines : \A c \in newlines : c <= b

\* createSplitMemos, lines 215-217: remaining without its leading newlines
\* and spaces.
TrimLeading(str) ==
    LET n == Len(str)
        k == CHOOSE k \in 0..n :
                 /\ k = n \/ str[k + 1] \notin {NL, SP}
                 /\ \A j \in 1..k : str[j] \in {NL, SP}
    IN  SubSeq(str, k + 1, n)

RECURSIVE SplitChunks(_, _)
\* createSplitMemos, lines 195-223: the chunking loop and the final part.
SplitChunks(str, parts) ==
    IF Len(str) > safeChunkSize
    THEN LET breakPoint == BreakPoint(str)
         IN  SplitChunks(
                 TrimLeading(SubSeq(str, breakPoint + 1, Len(str))),
                 Append(parts, SubSeq(str, 1, breakPoint)))
    ELSE IF Len(str) > 0 THEN Append(parts, str) ELSE parts

\* Position of the first newline of a string, one past its end when it has none.
FirstNewline(str) ==
    LET newlines == { i \in 1..Len(str) : str[i] = NL }
    IN  IF newlines = {} THEN Len(str) + 1
        ELSE CHOOSE i \in newlines : \A j \in newlines : i <= j

\* strings.HasPrefix(lines[0], "# ") for lines = strings.Split(part, "\n")
FirstLineIsTitle(chunk) ==
    /\ FirstNewline(chunk) > 2
    /\ chunk[1] = "#"
    /\ chunk[2] = SP

\* createSplitMemos, lines 233-241: strings.Join(lines[startIndex:], "\n"),
\* the part without its first line when that line starts with "# ".
ContentWithoutTitle(chunk) ==
    IF FirstLineIsTitle(chunk)
    THEN SubSeq(chunk, FirstNewline(chunk) + 1, Len(chunk))
    ELSE chunk

\* createSplitMemos, line 230: fmt.Sprintf("%s (%d/%d)", pageTitle, partNumber, len(parts))
PartTitle(pageTitle, partNumber, n) ==
    pageTitle \o << SP, "(" >> \o Itoa(partNumber) \o << "/" >> \o Itoa(n) \o << ")" >>

\* Mutant: every part gets both markers.
MemoContentBothMarkers(chunk, partNumber, n, pageTitle) ==
    << "#", SP >> \o PartTitle(pageTitle, partNumber, n) \o << NL, NL >>
        \o continuationMarker \o ContentWithoutTitle(chunk) \o splitMarker

\* createSplitMemos, lines 243-254: the memo of part partNumber of n.
MemoContent(chunk, partNumber, n, pageTitle) ==
    LET head == << "#", SP >> \o PartTitle(pageTitle, partNumber, n) \o << NL, NL >>
        contentWithoutTitle == ContentWithoutTitle(chunk)
    IN  IF partNumber = 1
        THEN head \o contentWithoutTitle \o splitMarker
        ELSE IF partNumber = n
        THEN head \o continuationMarker \o contentWithoutTitle
        ELSE head \o continuationMarker \o contentWithoutTitle \o splitMarker

\* ------------------------------------------------- rendered texts for the splitter

\* Lengths of page titles and of paragraph texts.
TitleLens == { 4, 200 }
ParaLens == { 2500, 8100 }

\* A paragraph block: plain text, or text that itself starts with "# ".
Paragraphs == [kind : {"text", "hash"}, len : ParaLens]

ParaLists == UNION { [1..n -> Paragraphs] : n \in 1..MaxParas }

\* The text of the j-th paragraph: its own letter, so that no two are alike.
ParaText(para, j) ==
    LET letter == << "a", "b", "c", "d", "e", "f" >>[j]
    IN  IF para.kind = "hash"
        THEN << "#", SP >> \o Rep(letter, para.len - 2)
        ELSE Rep(letter, para.len)

\* BlocksToMarkdown, line 329: the metadata comment of the creation time.
CreatedComment ==
    << "<", "!", "-", "-", SP, "C", "r", "e", "a", "t", "e", "d", ":", SP,
       "2", "0", "2", "4", "-", "0", "3", "-", "0", "1", SP,
       "1", "0", ":", "0", "0", ":", "0", "0", SP, "-", "-", ">" >>

RECURSIVE BlocksText(_, _)
\* BlocksToMarkdown, lines 333-339: each paragraph, then "\n" twice.
BlocksText(paras, j) ==
    IF j > Len(paras) THEN << >>
    ELSE ParaText(paras[j], j) \o << NL, NL >> \o BlocksText(paras, j + 1)

\* strings.TrimSpace of a text that ends with the two newlines of a block.
TrimSpace(str) == SubSeq(str, 1, Len(str) - 2)

\* BlocksToMarkdown for a page with a title, no tags and paragraph blocks.
Markdown(pageTitle, paras) ==
    TrimSpace(<< "#", SP >> \o pageTitle \o << NL, NL >>
              \o CreatedComment \o << NL, NL >> \o BlocksText(paras, 1))

\* The calls migratePage makes of createSplitMemos: len(markdown) > memosMaxLength.
SplitInputs ==
    { a \in { [content |-> Markdown(Rep("T", t), ps),
                pageTitle |-> Rep("T", t),
                createdTime |-> c] : t \in TitleLens, ps \in ParaLists, c \in Times } :
        Len(a.content) > memosMaxLength }

InitSplit ==
    /\ splitIn \in SplitInputs
    /\ chunks = << >>
    /\ delivered = << >>
    /\ remaining = << >>
    /\ pc = "split"
    /\ part = 0
    /\ docs = << >>
    /\ stateFile = NoFile
    /\ outputDir = {}
    /\ memos = [n \in Notes |-> 0]
    /\ run = 0
    /\ opts = NoOpts
    /\ state = {}
    /\ pages = << >>
    /\ idx = 0
    /\ loaded = {}
    /\ fetched = << >>
    /\ sent = [i \in DocIds |-> 0]
    /\ err = ""
    /\ prev = NoRun
    /\ ClientIdle
    /\ TagsIdle
    /\ SanitizerIdle
    /\ RendererIdle

\* createSplitMemos, lines 195-225: content is cut into parts.
SplitContent ==
    /\ pc = "split"
    /\ chunks' = SplitChunks(splitIn.content, << >>)
    /\ part' = 1
    /\ pc' = "create"
    /\ UNCHANGED << splitIn, delivered, remaining, orchVars, clientVars, tagVars, sanVars, renderVars >>

\* createSplitMemos, lines 228-265: CreateMemo returns nil for the next part.
CreatePart ==
    /\ pc = "create"
    /\ delivered' = Append(delivered,
           [content |-> MemoContent(chunks[part], part, Len(chunks), splitIn.pageTitle),
            createdTime |-> PartCreatedTime(splitIn.createdTime, part)])
    /\ IF part < Len(chunks)
       THEN part' = part + 1 /\ pc' = "create"
       ELSE part' = part /\ pc' = "created"
    /\ UNCHANGED << splitIn, chunks, remaining, orchVars, clientVars, tagVars, sanVars, renderVars >>

\* createSplitMemos, lines 260-262: CreateMemo returns an error for the part.
CreatePartFails ==
    /\ pc = "create"
    /\ pc' = "failed"
    /\ UNCHANGED << part, splitIn, chunks, delivered, remaining, orchVars, clientVars, tagVars, sanVars, renderVars >>

NextSplit == SplitContent \/ CreatePart \/ CreatePartFails

SpecSplit == InitSplit /\ [][NextSplit]_vars

\* ------------------------------------------------- claims on the splitter

\* C7: for every rendered text longer than 8192 characters and every title,
\* each part handed to the target service, its numbered title line and its
\* markers included, is at most 8192 characters long.
C7_PartsWithinLimit ==
    \A i \in 1..Len(delivered) : Len(delivered[i].content) <= memosMaxLength

\* A string without its newlines and spaces.
NoSpace(str) == SelectSeq(str, LAMBDA c : c \notin {NL, SP})

\* The body of a rendered text: what follows its title line.
BodyOf(content) == SubSeq(content, FirstNewline(content) + 1, Len(content))

\* The content of part i of n without what createSplitMemos put around it:
\* the numbered title line with its blank line, the leading "...\n\n" of every
\* part but the first and the trailing "\n\n..." of every part but the last.
WithoutInjected(content, i, n, pageTitle) ==
    LET head == 2 + Len(PartTitle(pageTitle, i, n)) + 2
        lead == IF i > 1 THEN Len(continuationMarker) ELSE 0
        trail == IF i < n THEN Len(splitMarker) ELSE 0
    IN  SubSeq(content, head + lead + 1, Len(content) - trail)

RECURSIVE Reassembled(_)
\* The parts 1..i of the dispatched memos, put together in order.
Reassembled(i) ==
    IF i = 0 THEN << >>
    ELSE Reassembled(i - 1)
         \o WithoutInjected(delivered[i].content, i, Len(delivered), splitIn.pageTitle)

\* C8: once every part is dispatched, the parts in order, without the injected
\* title lines and markers, are the body of the rendered text; the white space
\* dropped where the text was cut is not counted.
C8_PartsReassembleBody ==
    pc = "created" =>
        NoSpace(Reassembled(Len(delivered))) = NoSpace(BodyOf(splitIn.content))

\* ------------------------------------------------------ the paginated fetches

\* The orchestrator's and the splitter's variables where no run is looked into.
RunIdle ==
    /\ docs = << >>
    /\ stateFile = NoFile
    /\ outputDir = {}
    /\ memos = [n \in Notes |-> 0]
    /\ run = 0
    /\ part = 0
    /\ opts = NoOpts
    /\ state = {}
    /\ pages = << >>
    /\ idx = 0
    /\ loaded = {}
    /\ fetched = << >>
    /\ sent = [i \in DocIds |-> 0]
    /\ err = ""
    /\ prev = NoRun
    /\ SplitterIdle

\* The ids of the items a source can hold.
MaxItems == 4
ItemIds == 1..MaxItems

\* What a source holds: its items in its own order, none of them twice.
Sources ==
    { s \in UNION { [1..n -> ItemIds] : n \in 0..MaxItems } :
        \A i, j \in 1..Len(s) : i # j => s[i] # s[j] }

\* "page_size": 100 of SearchPages, page_size=100 of RetrieveBlocks
pageSize == 100

Min(a, b) == IF a < b THEN a ELSE b

\* The source: where the page that a start cursor asks for begins.  Without
\* a cursor it begins at the first item, with one at the item the cursor names.
StartOffset(src, startCursor) ==
    IF startCursor = NoCursor THEN 0
    ELSE (CHOOSE i \in 1..Len(src) : src[i] = startCursor) - 1

\* The source: the page of k items from a start cursor on.  next_cursor names
\* the first item after the page and is null with has_more false at the end.
PageOf(src, startCursor, k) ==
    LET o == StartOffset(src, startCursor)
    IN  [results |-> SubSeq(src, o + 1, o + k),
         next_cursor |-> IF o + k < Len(src) THEN src[o + k + 1] ELSE NoCursor,
         has_more |-> o + k < Len(src)]

\* The lengths the source may give the page from a start cursor on: up to
\* page_size items, at least one while there are items left.
PageLengths(src, startCursor) ==
    LET left == Len(src) - StartOffset(src, startCursor)
    IN  IF left = 0 THEN {0} ELSE 1..Min(pageSize, left)

\* Mutant: the results of a page replace what was collected.
AppendResultsReplaces(all, results) == results

\* allPages = append(allPages, searchResp.Results...)
AppendResults(all, results) == all \o results

\* var allPages []Page; var cursor *string
InitFetch ==
    /\ source \in Sources
    /\ endpoint \in {"search", "blocks"}
    /\ cursor = NoCursor
    /\ allItems = << >>
    /\ response = NoResponse
    /\ requests = << >>
    /\ pc = "request"
    /\ RunIdle
    /\ TagsIdle
    /\ SanitizerIdle
    /\ RendererIdle
    /\ LimiterIdle

\* One request of the loop: start_cursor is sent when cursor is not nil, and
\* the source answers with a page of k items.
SendRequest(k) ==
    /\ pc = "request"
    /\ k \in PageLengths(source, cursor)
    /\ requests' = Append(requests, cursor)
    /\ response' = PageOf(source, cursor, k)
    /\ pc' = "response"
    /\ UNCHANGED << source, endpoint, cursor, allItems, part, orchVars, splitVars,
                    limitVars, tagVars, sanVars, renderVars >>

\* doRequest returns an error or the body does not decode: return nil, err.
RequestFails ==
    /\ pc = "request"
    /\ requests' = Append(requests, cursor)
    /\ allItems' = << >>
    /\ pc' = "failed"
    /\ UNCHANGED << source, endpoint, cursor, response, part, orchVars, splitVars,
                    limitVars, tagVars, sanVars, renderVars >>

\* The rest of the loop body: the results are appended; without has_more the
\* loop breaks and allPages is returned, with it cursor is the next cursor.
HandleResponse ==
    /\ pc = "response"
    /\ allItems' = AppendResults(allItems, response.results)
    /\ IF ~response.has_more
       THEN pc' = "fetched" /\ cursor' = cursor
       ELSE pc' = "request" /\ cursor' = response.next_cursor
    /\ UNCHANGED << source, endpoint, response, requests, part, orchVars, splitVars,
                    limitVars, tagVars, sanVars, renderVars >>

NextFetch == (\E k \in 0..MaxItems : SendRequest(k)) \/ RequestFails \/ HandleResponse

SpecFetch == InitFetch /\ [][NextFetch]_vars

\* C9: for every N and every way the source divides its N items into pages,
\* SearchPages and RetrieveBlocks return exactly the N items in source order,
\* none twice and none missing, however many pages there were.
C9_FetchReturnsAllInOrder ==
    pc = "fetched" => allItems = source

\* A fetch of the largest source returned after three requests or more.
C9_Witness ==
    /\ pc = "fetched"
    /\ Len(source) = MaxItems
    /\ Len(requests) >= 3
    /\ endpoint = "blocks"

\* ------------------------------------------------------------ the rate limiter

\* Ticks of the clock per token: a token is refilled in TicksPerToken ticks,
\* so that calls can fall between two refills.
TicksPerToken == 2
MaxTime == 8
MaxRequests == 4

\* const rateLimit = 3, requests per second
rateLimit == 3

\* The ticks of one second: rateLimit tokens are refilled in it.
Second == rateLimit * TicksPerToken

\* Mutant: the limiter is made with the rate as its burst.
BurstIsRateLimit == rateLimit

\* rate.NewLimiter(rate.Limit(rateLimit), 1): the burst
Burst == 1

\* The requests the source client makes through doRequest.
SourceCalls == {"search", "page", "blocks"}

\* limiter.Wait, the limiter's advance: the tokens at time t, refilled since
\* last at one unit a tick and capped at the burst.
Advance(tok, lst, t) == Min(Burst * TicksPerToken, tok + (t - lst))

\* limiter.Wait, the reservation of one token at time t: the tokens left, which
\* may be negative, and the time to act, t plus the time the deficit takes.
TokensAfter(tok, lst, t) == Advance(tok, lst, t) - TicksPerToken
TimeToAct(tok, lst, t) ==
    LET left == TokensAfter(tok, lst, t)
    IN  IF left < 0 THEN t - left ELSE t

\* NewClient: a limiter with a full bucket; no request yet.
InitLimit ==
    /\ now = 0
    /\ tokens = Burst * TicksPerToken
    /\ last = 0
    /\ timeToAct = 0
    /\ kind = ""
    /\ grants = << >>
    /\ sends = << >>
    /\ pc = "ready"
    /\ RunIdle
    /\ TagsIdle
    /\ SanitizerIdle
    /\ RendererIdle
    /\ FetcherIdle

\* Time passes.
Tick ==
    /\ now < MaxTime
    /\ now' = now + 1
    /\ UNCHANGED << pc, part, tokens, last, timeToAct, kind, grants, sends,
                    orchVars, splitVars, fetchVars, tagVars, sanVars, renderVars >>

\* doRequest, line 152: c.limiter.Wait(req.Context()) reserves a token and
\* sleeps until the time to act.  The context is never cancelled and one
\* token is within the burst, so Wait returns no error.
DoRequest(k) ==
    /\ pc = "ready"
    /\ Len(grants) < MaxRequests
    /\ kind' = k
    /\ tokens' = TokensAfter(tokens, last, now)
    /\ timeToAct' = TimeToAct(tokens, last, now)
    /\ last' = now
    /\ grants' = Append(grants, TimeToAct(tokens, last, now))
    /\ pc' = "wait"
    /\ UNCHANGED << now, part, sends, orchVars, splitVars, fetchVars, tagVars, sanVars, renderVars >>

\* doRequest, lines 157-162: Wait has returned, at the time to act or later,
\* and the request goes out.
WaitReturns ==
    /\ pc = "wait"
    /\ now >= timeToAct
    /\ sends' = Append(sends, now)
    /\ pc' = "sent"
    /\ UNCHANGED << now, part, tokens, last, timeToAct, kind, grants,
                    orchVars, splitVars, fetchVars, tagVars, sanVars, renderVars >>

\* doRequest, lines 163-172: the response or the error is returned; the
\* caller may make its next request.
Respond ==
    /\ pc = "sent"
    /\ pc' = "ready"
    /\ UNCHANGED << now, part, tokens, last, timeToAct, kind, grants, sends,
                    orchVars, splitVars, fetchVars, tagVars, sanVars, renderVars >>

NextLimit == Tick \/ (\E k \in SourceCalls : DoRequest(k)) \/ WaitReturns \/ Respond

SpecLimit == InitLimit /\ [][NextLimit]_vars

\* The permits granted for a time in the second that starts at t.
GrantedIn(t) == { i \in 1..Len(grants) : t <= grants[i] /\ grants[i] < t + Second }

\* C10: every request to the source goes out only after a permit was acquired
\* for it, at the permit's time or later, and no more than 3 permits are
\* granted within any window of one second.
C10_PermitFirstAndThreePerSecond ==
    /\ Len(sends) <= Len(grants)
    /\ \A i \in 1..Len(sends) : grants[i] <= sends[i]
    /\ \A t \in 0..(MaxTime + Second) : Cardinality(GrantedIn(t)) <= rateLimit

\* Four requests went out, the fourth permit exactly one second after the
\* first, which is as close as the limiter lets them be.
C10_Witness ==
    /\ Len(sends) >= 4
    /\ grants[4] = grants[1] + Second
    /\ Cardinality(GrantedIn(grants[1])) = rateLimit

\* ------------------------------------------------------------ tag resolution

\* The pages of the source, the databases, and the pages one run migrates.
MaxTagPages == 3
MaxDbs == 1
MaxTagDocs == 2

TagPageIds == 1..MaxTagPages
DbIds == 1..MaxDbs

\* Page.Parent: a parent reference names a database, a page, or nothing.
Parents ==
    { r \in [database_id : DbIds \cup {NoId}, page_id : TagPageIds \cup {NoId}] :
        r.database_id = NoId \/ r.page_id = NoId }

\* The parent reference of every page; the references may form cycles.
Graphs == [TagPageIds -> Parents]

\* Page.GetParentDatabaseID: the id of the parent database, "" without one.
GetParentDatabaseID(parent) == parent.database_id

\* Page.GetParentPageID: the id of the parent page, "" without one.
GetParentPageID(parent) == parent.page_id

\* Page.GetPageTitle and Database.GetDatabaseTitle: every page and every
\* database has a title of its own.
PageTitleOf(id) == << "P", id >>
DatabaseTitleOf(id) == << "D", id >>

\* for i := 0; i < 10 && currentPageID != ""; i++
maxLevels == 10

\* Mutant: the loop runs while i <= 10.
WalkGoesOnOnceMore(i, pageID) == i <= maxLevels /\ pageID # NoId

\* getParentTagsCached, line 346: the loop condition.
WalkGoesOn(i, pageID) == i < maxLevels /\ pageID # NoId

\* Mutant: the title is put behind the tags.
PrependPutsLast(title, tagList) == tagList \o << title >>

\* getParentTagsCached, line 353: append([]string{title}, tags...)
Prepend(title, tagList) == << title >> \o tagList

\* Mutant: the cache is never found to hold the id.
CacheHitNever(cache, id) == FALSE

\* getPageCached, line 304 and getDatabaseCached, line 319: the map lookup.
CacheHit(cache, id) == id \in cache

\* getParentTagsCached, line 357: return tags, nil
NoError == "nil"
TagsError == NoError

\* migratePage, lines 135-139: the warning is printed when err != nil.
Warned(log, pageID, tagsErr) == IF tagsErr # NoError THEN log \cup {pageID} ELSE log

\* A network call of the run and how it ended.
Call(name, id, ok) == [call |-> name, id |-> id, ok |-> ok]

\* NewMigrator: empty caches; Migrate is about to search.
InitTags ==
    /\ graph \in Graphs
    /\ pageCache = {}
    /\ databaseCache = {}
    /\ tags = << >>
    /\ currentPageID = NoId
    /\ hops = 0
    /\ lookupFailed = FALSE
    /\ warnings = {}
    /\ calls = << >>
    /\ used = << >>
    /\ emptyPages \in SUBSET (1..MaxTagDocs)
    /\ pc = "searching"
    /\ pages = << >>
    /\ idx = 0
    /\ state = {}
    /\ stateFile = NoFile
    /\ docs = << >>
    /\ outputDir = {}
    /\ memos = [n \in Notes |-> 0]
    /\ run = 0
    /\ part = 0
    /\ opts = NoOpts
    /\ loaded = {}
    /\ fetched = << >>
    /\ sent = [i \in DocIds |-> 0]
    /\ err = ""
    /\ prev = NoRun
    /\ SplitterIdle
    /\ ClientIdle
    /\ SanitizerIdle
    /\ RendererIdle

\* What the tag run leaves alone of the orchestrator's variables.
tagRunRest == << docs, outputDir, memos, run, part, opts, loaded, fetched, sent,
                 prev, splitVars, clientVars, sanVars, renderVars, graph, emptyPages >>

\* Migrate, lines 56-61: SearchPages returns the n pages the run migrates.
TagSearch(n) ==
    /\ pc = "searching"
    /\ pages' = [i \in 1..n |-> [ID |-> i, Parent |-> graph[i]]]
    /\ idx' = 1
    /\ calls' = Append(calls, Call("search", NoId, TRUE))
    /\ pc' = "fetching"
    /\ UNCHANGED << state, stateFile, err, pageCache, databaseCache, tags,
                    currentPageID, hops, lookupFailed, warnings, used, tagRunRest >>

\* Migrate, lines 57-59: SearchPages returns an error.
TagSearchFails ==
    /\ pc = "searching"
    /\ calls' = Append(calls, Call("search", NoId, FALSE))
    /\ pc' = "failed"
    /\ err' = "search"
    /\ UNCHANGED << pages, idx, state, stateFile, pageCache, databaseCache, tags,
                    currentPageID, hops, lookupFailed, warnings, used, tagRunRest >>

\* len(blocks) for the blocks RetrieveBlocks returns for a page.
BlockCount(pageID) == IF pageID \in emptyPages THEN 0 ELSE 1

\* Mutant: no page is skipped for having no blocks.
SkipsPageNever(nBlocks) == FALSE

\* migratePage, line 130: if len(blocks) == 0
SkipsPage(nBlocks) == nBlocks = 0

\* migratePage, lines 121-133, and Migrate, lines 97-105: the blocks are
\* retrieved and there are none; migratePage returns nil at once, the page
\* is marked and the state saved, and the loop goes on.
TagSkipEmpty ==
    /\ pc = "fetching"
    /\ SkipsPage(BlockCount(pages[idx].ID))
    /\ calls' = Append(calls, Call("blocks", pages[idx].ID, TRUE))
    /\ state' = MarkProcessed(state, pages[idx].ID)
    /\ stateFile' = SaveState(MarkProcessed(state, pages[idx].ID))
    /\ IF idx < Len(pages)
       THEN idx' = idx + 1 /\ pc' = "fetching"
       ELSE idx' = idx /\ pc' = "finished"
    /\ UNCHANGED << pages, err, pageCache, databaseCache, tags, currentPageID,
                    hops, lookupFailed, warnings, used, tagRunRest >>

\* migratePage, lines 121-133, and getParentTagsCached, line 334: the blocks
\* are retrieved and there are some; tag resolution starts with no tags.
TagRetrieveBlocks ==
    /\ pc = "fetching"
    /\ ~SkipsPage(BlockCount(pages[idx].ID))
    /\ calls' = Append(calls, Call("blocks", pages[idx].ID, TRUE))
    /\ tags' = << >>
    /\ lookupFailed' = FALSE
    /\ pc' = "collection"
    /\ UNCHANGED << pages, idx, state, stateFile, err, pageCache, databaseCache,
                    currentPageID, hops, warnings, used, tagRunRest >>

\* migratePage, lines 121-124: RetrieveBlocks returns an error.
TagRetrieveBlocksFails ==
    /\ pc = "fetching"
    /\ calls' = Append(calls, Call("blocks", pages[idx].ID, FALSE))
    /\ pc' = AfterMigratePageError
    /\ err' = "page"
    /\ UNCHANGED << pages, idx, state, stateFile, pageCache, databaseCache, tags,
                    currentPageID, hops, lookupFailed, warnings, used, tagRunRest >>

\* getParentTagsCached, lines 336-345, with getDatabaseCached: the title of
\* the parent database is appended when the database is cached or fetched;
\* a failed fetch caches nothing and adds no tag.  The walk then starts at
\* the parent page.
ResolveCollection(ok) ==
    /\ pc = "collection"
    /\ LET parent == pages[idx].Parent
           dbID == GetParentDatabaseID(parent)
       IN  /\ IF dbID = NoId
              THEN /\ ok
                   /\ UNCHANGED << tags, databaseCache, calls, lookupFailed >>
              ELSE IF CacheHit(databaseCache, dbID)
              THEN /\ ok
                   /\ tags' = Append(tags, DatabaseTitleOf(dbID))
                   /\ UNCHANGED << databaseCache, calls, lookupFailed >>
              ELSE /\ calls' = Append(calls, Call("database", dbID, ok))
                   /\ databaseCache' = IF ok THEN databaseCache \cup {dbID}
                                       ELSE databaseCache
                   /\ tags' = IF ok THEN Append(tags, DatabaseTitleOf(dbID)) ELSE tags
                   /\ lookupFailed' = (lookupFailed \/ ~ok)
           /\ currentPageID' = GetParentPageID(parent)
    /\ hops' = 0
    /\ pc' = "walking"
    /\ UNCHANGED << pages, idx, state, stateFile, err, pageCache, warnings, used,
                    tagRunRest >>

\* getParentTagsCached, lines 346-355, with getPageCached: one turn of the
\* loop.  The parent is taken from the cache or fetched and cached, its
\* title is prepended and the walk moves to its parent; a failed fetch
\* caches nothing, breaks the loop and tags is returned with a nil error,
\* so that migratePage prints no warning.
WalkStep(ok) ==
    /\ pc = "walking"
    /\ WalkGoesOn(hops, currentPageID)
    /\ LET hit == CacheHit(pageCache, currentPageID)
       IN  /\ hit => ok
           /\ calls' = IF hit THEN calls
                       ELSE Append(calls, Call("page", currentPageID, ok))
           /\ pageCache' = IF ok THEN pageCache \cup {currentPageID} ELSE pageCache
           /\ IF ok
              THEN /\ tags' = Prepend(PageTitleOf(currentPageID), tags)
                   /\ currentPageID' = GetParentPageID(graph[currentPageID])
                   /\ hops' = hops + 1
                   /\ pc' = "walking"
                   /\ UNCHANGED << lookupFailed, warnings >>
              ELSE /\ lookupFailed' = TRUE
                   /\ warnings' = Warned(warnings, pages[idx].ID, TagsError)
                   /\ pc' = "dispatching"
                   /\ UNCHANGED << tags, currentPageID, hops >>
    /\ UNCHANGED << pages, idx, state, stateFile, err, databaseCache, used,
                    tagRunRest >>

\* getParentTagsCached, lines 346 and 357: the loop condition fails and tags
\* is returned with a nil error.
WalkReturns ==
    /\ pc = "walking"
    /\ ~WalkGoesOn(hops, currentPageID)
    /\ warnings' = Warned(warnings, pages[idx].ID, TagsError)
    /\ pc' = "dispatching"
    /\ UNCHANGED << pages, idx, state, stateFile, err, pageCache, databaseCache,
                    tags, currentPageID, hops, lookupFailed, calls, used,
                    tagRunRest >>

\* migratePage, lines 150-183, and Migrate, lines 97-105: the markdown is
\* rendered with the tags and CreateMemo returns nil; the page is marked
\* and the state saved, and the loop goes on.
TagCreateMemo ==
    /\ pc = "dispatching"
    /\ calls' = Append(calls, Call("create", pages[idx].ID, TRUE))
    /\ used' = Append(used, [id |-> pages[idx].ID, tags |-> tags,
                             lookupFailed |-> lookupFailed])
    /\ state' = MarkProcessed(state, pages[idx].ID)
    /\ stateFile' = SaveState(MarkProcessed(state, pages[idx].ID))
    /\ IF idx < Len(pages)
       THEN idx' = idx + 1 /\ pc' = "fetching"
       ELSE idx' = idx /\ pc' = "finished"
    /\ UNCHANGED << pages, err, pageCache, databaseCache, tags, currentPageID,
                    hops, lookupFailed, warnings, tagRunRest >>

\* CreateMemo returns an error: the POST is refused or, where the display
\* time is set by a PATCH after it, the PATCH is.
TagCreateMemoFails(stage) ==
    /\ pc = "dispatching"
    /\ calls' = IF stage = "update"
                THEN calls \o << Call("create", pages[idx].ID, TRUE),
                                 Call("update", pages[idx].ID, FALSE) >>
                ELSE Append(calls, Call("create", pages[idx].ID, FALSE))
    /\ pc' = AfterMigratePageError
    /\ err' = "page"
    /\ UNCHANGED << pages, idx, state, stateFile, pageCache, databaseCache, tags,
                    currentPageID, hops, lookupFailed, warnings, used, tagRunRest >>

NextTags ==
    \/ \E n \in 1..MaxTagDocs : TagSearch(n)
    \/ TagSearchFails
    \/ TagSkipEmpty
    \/ TagRetrieveBlocks
    \/ TagRetrieveBlocksFails
    \/ \E ok \in BOOLEAN : ResolveCollection(ok)
    \/ \E ok \in BOOLEAN : WalkStep(ok)
    \/ WalkReturns
    \/ TagCreateMemo
    \/ \E stage \in {"create", "update"} : TagCreateMemoFails(stage)

SpecTags == InitTags /\ [][NextTags]_vars

\* A run goes on: every call it makes returns, and the next statement runs.
SpecTagsFair == SpecTags /\ WF_vars(NextTags)

\* ------------------------------------------------- claims on tag resolution

IsPageTag(tag) == tag[1] = "P"
IsDatabaseTag(tag) == tag[1] = "D"

\* The tags of a list that are titles of pages, and those of databases.
AncestorTags(tagList) == SelectSeq(tagList, IsPageTag)
CollectionTags(tagList) == SelectSeq(tagList, IsDatabaseTag)

\* Tag resolution is under way for the page at idx.
Resolving == pc \in {"collection", "walking"}

TagBound(tagList) ==
    /\ Len(AncestorTags(tagList)) <= 10
    /\ Len(CollectionTags(tagList)) <= 1

\* C11: tag resolution terminates for every parent graph, cyclic ones
\* included: the walk looks up at most 10 parents for a page, so the result
\* has at most 10 ancestor tags and at most one collection tag.
C11_WalkEndsWithinTenParents ==
    /\ [](/\ hops <= 10
          /\ TagBound(tags)
          /\ \A k \in 1..Len(used) : TagBound(used[k].tags))
    /\ (Resolving ~> ~Resolving)

\* A walk round a cycle was cut off after ten parents.
C11_Witness ==
    /\ pc = "dispatching"
    /\ hops = 10
    /\ currentPageID # NoId
    /\ Len(tags) = 10

RECURSIVE AncestorsOf(_, _)
\* The ancestors from page id on, nearest first, k of them at most.
AncestorsOf(id, k) ==
    IF k = 0 \/ id = NoId THEN << >>
    ELSE << id >> \o AncestorsOf(graph[id].page_id, k - 1)

\* The ancestor tags of tagList are titles of the nearest ancestors of page
\* docID, the outermost of them first and the parent last.
OutermostFirst(docID, tagList) ==
    LET anc == AncestorTags(tagList)
        chain == AncestorsOf(graph[docID].page_id, Len(anc))
    IN  /\ Len(chain) = Len(anc)
        /\ \A j \in 1..Len(anc) : anc[j] = PageTitleOf(chain[Len(anc) + 1 - j])

\* A collection tag stands nowhere but first, and it stands there when the
\* page is in a collection and no lookup failed.
CollectionFirst(docID, tagList, failed) ==
    LET dbID == graph[docID].database_id
    IN  /\ \A j \in 1..Len(tagList) : IsDatabaseTag(tagList[j]) => j = 1
        /\ (dbID # NoId /\ ~failed) =>
               (Len(tagList) >= 1 /\ tagList[1] = DatabaseTitleOf(dbID))
        /\ ~failed =>
               Len(AncestorTags(tagList)) = Len(AncestorsOf(graph[docID].page_id, 10))

LastCallFailedIsFatal ==
    /\ Len(calls) > 0
    /\ ~calls[Len(calls)].ok
    /\ calls[Len(calls)].call \notin {"page", "database"}

\* C13: a failed parent or collection fetch during tag resolution does not
\* fail the migration of the page: the walk stops there, the tags gathered so
\* far are used, a warning is reported, and the page is still dispatched.
C13_FailedLookupWarnsAndGoesOn ==
    /\ pc = "failed" => LastCallFailedIsFatal
    /\ (pc = "dispatching" /\ lookupFailed) =>
           /\ pages[idx].ID \in warnings
           /\ OutermostFirst(pages[idx].ID, tags)
    /\ \A k \in 1..Len(used) : used[k].lookupFailed => used[k].id \in warnings

\* Call j repeats call i: the same request for the same id.
SameCall(i, j) == calls[i].call = calls[j].call /\ calls[i].id = calls[j].id

\* C14, as claimed: every failed network call of a run ends the run with an
\* error, and no failed call is issued again within the run.
C14_EveryFailedCallEndsRun ==
    /\ \A i \in 1..Len(calls) : ~calls[i].ok => (i = Len(calls) /\ pc = "failed")
    /\ \A i, j \in 1..Len(calls) : (i < j /\ ~calls[i].ok) => ~SameCall(i, j)

\* C14, amended: a failed search, block fetch, create or update ends the run
\* and is the run's last call; a failed fetch of a parent page or of a
\* database never ends the run and is not retried in place, the call after
\* it being another one.
C14_FatalCallsEndRunLookupsDoNot ==
    /\ \A i \in 1..Len(calls) :
           (~calls[i].ok /\ calls[i].call \notin {"page", "database"}) =>
               (i = Len(calls) /\ pc = "failed")
    /\ \A i \in 1..(Len(calls) - 1) :
           (~calls[i].ok /\ calls[i].call \in {"page", "database"}) =>
               ~SameCall(i, i + 1)
    /\ pc = "failed" => LastCallFailedIsFatal

\* The fetch of a parent page failed for the first page, the run went on,
\* fetched the same parent again for the second page and finished.
C14_Witness ==
    /\ pc = "finished"
    /\ Len(used) = 2
    /\ \E i, j \in 1..Len(calls) :
           /\ i < j
           /\ calls[i].call = "page"
           /\ ~calls[i].ok
           /\ SameCall(i, j)

\* The ids a call of the given name succeeded for.
Fetched(name) ==
    { calls[i].id : i \in { j \in 1..Len(calls) : calls[j].call = name /\ calls[j].ok } }

\* C16: within a run every page id and every database id is written to its
\* cache at most once: an entry is never removed or written again, a failed
\* fetch writes nothing, and a cached id is never fetched again.
C16_CacheWriteOnce ==
    /\ pageCache = Fetched("page")
    /\ databaseCache = Fetched("database")
    /\ \A i, j \in 1..Len(calls) :
           (i < j /\ calls[i].ok /\ calls[i].call \in {"page", "database"}) =>
               ~SameCall(i, j)

\* A fetch of page 3 failed and wrote nothing, a later one cached it, and a
\* walk round a cycle then read the cache instead of fetching.
C16_Witness ==
    /\ pc = "dispatching"
    /\ hops = 10
    /\ 3 \in pageCache
    /\ \E i, j \in 1..Len(calls) :
           /\ i < j
           /\ calls[i] = Call("page", 3, FALSE)
           /\ calls[j] = Call("page", 3, TRUE)

\* ------------------------------------------------- claims on the ProcessedSet

\* The ProcessedSet on durable storage: the ids a load of the file returns.
Durable(file) == IF file.exists /\ file.valid THEN file.pages ELSE {}

\* A step of the reset command.
ResetStep == pc' = "idle" /\ stateFile' = NoFile

\* C15: during a Migrate run, with or without Resume, the ProcessedSet only
\* grows, in memory and on durable storage: no id in the set before a step is
\* absent after it, and only the reset command removes ids.
C15_ProcessedSetOnlyGrows ==
    [][ResetStep \/ (/\ run' = run => state \subseteq state'
                     /\ Durable(stateFile) \subseteq Durable(stateFile'))]_vars

\* ------------------------------------------------------- claims on dry runs

\* C17: in a dry run no call to the target service is made, whatever the
\* documents are: the target's notes stay as they are, and every part (or
\* single document) dispatched is written as a file of the output directory.
C17_DryRunWritesFilesOnly ==
    [][opts.dryRun =>
          /\ memos' = memos
          /\ (pc = "dispatch" /\ sent' # sent) =>
                 FileName(PartCreatedTime(pages[idx].CreatedTime, part)) \in outputDir']_vars

\* A dry run over a document of two parts has ended: files, and no notes.
C17_Witness ==
    /\ opts.dryRun
    /\ pc = "done"
    /\ \E i \in DocIds : sent[i] = 2
    /\ outputDir # {}
    /\ \A n \in Notes : memos[n] = 0

\* ------------------------------------------- claims on the parts of a split

HasPrefix(str, pre) == Len(str) >= Len(pre) /\ SubSeq(str, 1, Len(pre)) = pre
HasSuffix(str, suf) ==
    Len(str) >= Len(suf) /\ SubSeq(str, Len(str) - Len(suf) + 1, Len(str)) = suf

\* The title line of part i of n with the blank line after it: "# T (i/n)".
NumberedTitle(pageTitle, i, n) ==
    << "#", " " >> \o pageTitle \o << " ", "(" >> \o Itoa(i) \o << "/" >> \o Itoa(n)
        \o << ")", "\n", "\n" >>

\* What part i carries below its title line.
BelowTitle(i) ==
    LET head == NumberedTitle(splitIn.pageTitle, i, Len(chunks))
    IN  SubSeq(delivered[i].content, Len(head) + 1, Len(delivered[i].content))

\* C18: in a split into n parts, part i carries the title suffix (i/n); the
\* first part has a trailing ellipsis marker and no leading one, the last a
\* leading one and no trailing one, every part between them has both.
C18_NumberedTitlesAndMarkers ==
    \A i \in 1..Len(delivered) :
        /\ HasPrefix(delivered[i].content,
                     NumberedTitle(splitIn.pageTitle, i, Len(chunks)))
        /\ HasPrefix(BelowTitle(i), << ".", ".", ".", "\n", "\n" >>) <=> i > 1
        /\ HasSuffix(BelowTitle(i), << "\n", "\n", ".", ".", "." >>) <=> i < Len(chunks)

\* A split into three parts or more, all dispatched: there is a middle part.
C18_Witness ==
    /\ pc = "created"
    /\ Len(delivered) >= 3
    /\ Len(delivered) = Len(chunks)

\* C19: the parts are dispatched in index order, part i (counted from 0) with
\* the page's time plus 5 i seconds: the times grow strictly in dispatch
\* order, 5 seconds from one part to the next.
C19_PartTimesFiveSecondsApart ==
    /\ \A i \in 1..Len(delivered) :
           /\ delivered[i].createdTime = splitIn.createdTime + 5 * (i - 1)
           /\ HasPrefix(delivered[i].content,
                        NumberedTitle(splitIn.pageTitle, i, Len(chunks)))
    /\ \A i \in 1..(Len(delivered) - 1) :
           delivered[i + 1].createdTime = delivered[i].createdTime + 5

\* Three parts of a page created at second 5 went out at 5, 10 and 15.
C19_Witness ==
    /\ Len(delivered) >= 3
    /\ splitIn.createdTime = 5
    /\ delivered[3].createdTime = 15

\* --------------------------------------------------------------- sanitizeTag

\* Longest tag tried, but for the example "My Tag." of the specification.
MaxTagLen == 3

\* Characters of titles: letters, a digit, '_', '-', a space, a dot, and two
\* that are none of these, one of them outside ASCII.
TagChars == { "a", "Z", "7", "_", "-", " ", ".", "#", "é" }

TagStrings ==
    UNION { [1..n -> TagChars] : n \in 0..MaxTagLen }
        \cup { << "M", "y", " ", "T", "a", "g", "." >> }

Lower == { "a", "b", "c", "d", "e", "f", "g", "h", "i", "j", "k", "l", "m",
           "n", "o", "p", "q", "r", "s", "t", "u", "v", "w", "x", "y", "z" }
Upper == { "A", "B", "C", "D", "E", "F", "G", "H", "I", "J", "K", "L", "M",
           "N", "O", "P", "Q", "R", "S", "T", "U", "V", "W", "X", "Y", "Z" }
Digits == { "0", "1", "2", "3", "4", "5", "6", "7", "8", "9" }

\* strings.ReplaceAll(str, old, new) for strings old and new of one character
ReplaceAll(str, old, new) ==
    [i \in 1..Len(str) |-> IF str[i] = old THEN new ELSE str[i]]

\* sanitizeTag, line 458: the runes written to the result.
Kept(r) == r \in Lower \cup Upper \cup Digits \cup { "_", "-" }

\* Mutant: the dots are not replaced.
sanitizeTagForgetsDots(tag) == SelectSeq(ReplaceAll(tag, " ", "_"), Kept)

\* sanitizeTag
sanitizeTag(tag) ==
    SelectSeq(ReplaceAll(ReplaceAll(tag, " ", "_"), ".", "_"), Kept)

InitSanitize ==
    /\ tagIn \in TagStrings
    /\ tagOut = << >>
    /\ tagTwice = << >>
    /\ pc = "sanitize"
    /\ RunIdle
    /\ ClientIdle
    /\ TagsIdle
    /\ RendererIdle

\* BlocksToMarkdown, line 320: sanitizeTag(tag)
Sanitize ==
    /\ pc = "sanitize"
    /\ tagOut' = sanitizeTag(tagIn)
    /\ pc' = "sanitized"
    /\ UNCHANGED << tagIn, tagTwice, part, orchVars, splitVars, clientVars, tagVars,
                    renderVars >>

\* sanitizeTag is given what it returned.
SanitizeAgain ==
    /\ pc = "sanitized"
    /\ tagTwice' = sanitizeTag(tagOut)
    /\ pc' = "twice"
    /\ UNCHANGED << tagIn, tagOut, part, orchVars, splitVars, clientVars, tagVars,
                    renderVars >>

NextSanitize == Sanitize \/ SanitizeAgain

SpecSanitize == InitSanitize /\ [][NextSanitize]_vars

RECURSIVE Sanitized(_)
\* A string with every space and every '.' turned into '_' and every other
\* character outside [A-Za-z0-9_-] left out.
Sanitized(str) ==
    IF str = << >> THEN << >>
    ELSE LET c == Head(str)
             rest == Sanitized(Tail(str))
         IN  IF c \in { " ", "." } THEN << "_" >> \o rest
             ELSE IF c \in Lower \cup Upper \cup Digits \cup { "_", "-" }
             THEN << c >> \o rest
             ELSE rest

\* C20: sanitizeTag maps every space and every '.' to '_' and drops every
\* character outside [A-Za-z0-9_-], so its output has only such characters;
\* and sanitizeTag of its own output is that output.
C20_SanitizeMapsDropsIdempotent ==
    /\ pc \in {"sanitized", "twice"} =>
           /\ tagOut = Sanitized(tagIn)
           /\ \A i \in 1..Len(tagOut) :
                  tagOut[i] \in Lower \cup Upper \cup Digits \cup { "_", "-" }
    /\ pc = "twice" => tagTwice = tagOut

\* The example of the specification: "My Tag." gives "My_Tag_", twice.
C20_Witness ==
    /\ pc = "twice"
    /\ tagIn = << "M", "y", " ", "T", "a", "g", "." >>
    /\ tagOut = << "M", "y", "_", "T", "a", "g", "_" >>
    /\ tagTwice = tagOut

\* ------------------------------------------------- claims on persisting

\* C21: SaveState replaces the durable record atomically: whatever happens
\* while the state is saved, also when the write is cut short, a later load
\* succeeds and returns the set as it was before the save or the full set
\* after it.
C21_PersistIsAtomic ==
    [][pc = "save" =>
          /\ ~LoadStateFails(stateFile')
          /\ LoadState(stateFile') \in { LoadState(stateFile), state }]_vars

\* ------------------------------------------------- claims on empty documents

\* The position in calls of a block fetch that returned no blocks.
EmptyFetches ==
    { j \in 1..Len(calls) :
        calls[j].call = "blocks" /\ calls[j].ok /\ calls[j].id \in emptyPages }

\* C22: a document with no content blocks is skipped: after its blocks are
\* fetched no parent or collection is looked up and nothing is rendered or
\* dispatched for it; its id is in the ProcessedSet, in memory and on durable
\* storage, and the run goes on: the next call, if any, fetches the blocks
\* of the next document.
C22_EmptyDocumentSkippedAndRecorded ==
    \A j \in EmptyFetches :
        LET id == calls[j].id
        IN  /\ id \in state
            /\ id \in LoadState(stateFile)
            /\ \A u \in 1..Len(used) : used[u].id # id
            /\ j < Len(calls) =>
                   calls[j + 1].call = "blocks" /\ calls[j + 1].id = id + 1
            /\ j = Len(calls) =>
                   \/ pc = "finished" /\ id = Len(pages)
                   \/ pc = "fetching" /\ idx = id + 1

\* An empty document below a parent page was skipped and the document after
\* it, which has blocks and the same parent, was dispatched with its tag.
C22_Witness ==
    /\ pc = "finished"
    /\ emptyPages = {1}
    /\ Len(pages) = 2
    /\ GetParentPageID(graph[1]) = 3
    /\ GetParentPageID(graph[2]) = 3
    /\ Len(used) = 1
    /\ used[1].id = 2
    /\ used[1].tags # << >>
    /\ state = {1, 2}

\* --------------------------------------------------------------- the renderer

\* Longest list of blocks BlocksToMarkdown is given.
MaxBlocks == 2

\* What richTextToMarkdown (richTextToPlainText for code) makes of a block's
\* rich text: nothing, a word, or a text that itself starts with "# ".
BlockTexts == { << >>, << "x" >>, << "#", SP, "x" >> }

\* Block.Type: the eight types blockToMarkdown knows and one it does not.
BlockTypes == { "paragraph", "heading_1", "heading_2", "heading_3",
                "bulleted_list_item", "numbered_list_item", "to_do", "code",
                "image" }

\* notion.Block: payload is FALSE when the pointer for the block's type is
\* nil; Checked is ToDo.Checked and Language is Code.Language.
Blocks ==
    [Type : BlockTypes, payload : {TRUE}, text : BlockTexts,
     Checked : {FALSE}, Language : {""}]
        \cup [Type : {"to_do"}, payload : {TRUE}, text : {<< "x" >>},
              Checked : {TRUE}, Language : {""}]
        \cup [Type : {"code"}, payload : {TRUE}, text : {<< "x" >>},
              Checked : {FALSE}, Language : {"go"}]
        \cup [Type : {"paragraph", "heading_1"}, payload : {FALSE}, text : {<< >>},
              Checked : {FALSE}, Language : {""}]

RenderInputs ==
    [blocks : UNION { [1..n -> Blocks] : n \in 0..MaxBlocks },
     pageTitle : { << >>, << "T" >> }]

\* Mutant: a heading keeps its source level.
HeadingMarkUnshifted(type) ==
    CASE type = "heading_1" -> << "#", SP >>
      [] type = "heading_2" -> << "#", "#", SP >>
      [] type = "heading_3" -> << "#", "#", "#", SP >>

\* blockToMarkdown, lines 355-369: "## ", "### " and "#### ".
HeadingMark(type) ==
    CASE type = "heading_1" -> << "#", "#", SP >>
      [] type = "heading_2" -> << "#", "#", "#", SP >>
      [] type = "heading_3" -> << "#", "#", "#", "#", SP >>

\* The backquote of a code fence, a character of its own.
Backquote == "BQ"

\* The language of a code fence, as a string of characters.
Fence(lang) == IF lang = "" THEN << "t", "e", "x", "t" >> ELSE << "g", "o" >>

\* blockToMarkdown
blockToMarkdown(block) ==
    IF ~block.payload THEN << >>
    ELSE CASE block.Type = "paragraph" ->
                  IF block.text # << >> THEN block.text \o << NL >> ELSE << >>
           [] block.Type \in {"heading_1", "heading_2", "heading_3"} ->
                  HeadingMark(block.Type) \o block.text \o << NL >>
           [] block.Type = "bulleted_list_item" ->
                  << "-", SP >> \o block.text \o << NL >>
           [] block.Type = "numbered_list_item" ->
                  << "1", ".", SP >> \o block.text \o << NL >>
           [] block.Type = "to_do" ->
                  (IF block.Checked THEN << "-", SP, "[", "x", "]" >>
                   ELSE << "-", SP, "[", SP, "]" >>)
                      \o << SP >> \o block.text \o << NL >>
           [] block.Type = "code" ->
                  << Backquote, Backquote, Backquote >> \o Fence(block.Language)
                      \o << NL >> \o block.text
                      \o << NL, Backquote, Backquote, Backquote, NL >>
           [] OTHER -> << >>

\* strings.TrimSpace: the string without the white space at its two ends.
StringsTrimSpace(str) ==
    LET n == Len(str)
        inner == { i \in 1..n : str[i] \notin {NL, SP} }
    IN  IF inner = {} THEN << >>
        ELSE SubSeq(str, CHOOSE i \in inner : \A j \in inner : i <= j,
                         CHOOSE i \in inner : \A j \in inner : j <= i)

\* BlocksToMarkdown is called with a title or none, no tags and a creation
\* time that parses.
InitRender ==
    /\ renderIn \in RenderInputs
    /\ md = << >>
    /\ blockIdx = 0
    /\ markdown = << >>
    /\ pc = "title"
    /\ RunIdle
    /\ ClientIdle
    /\ TagsIdle
    /\ SanitizerIdle

\* BlocksToMarkdown, lines 312-331: the title line and the metadata comment.
WriteTitle ==
    /\ pc = "title"
    /\ md' = (IF renderIn.pageTitle # << >>
              THEN << "#", SP >> \o renderIn.pageTitle \o << NL, NL >>
              ELSE << >>) \o CreatedComment \o << NL, NL >>
    /\ blockIdx' = 1
    /\ pc' = "blocks"
    /\ UNCHANGED << renderIn, markdown, part, orchVars, splitVars, clientVars,
                    tagVars, sanVars >>

\* BlocksToMarkdown, lines 333-339: one turn of the loop over the blocks.
WriteBlock ==
    /\ pc = "blocks"
    /\ blockIdx <= Len(renderIn.blocks)
    /\ LET blockMd == blockToMarkdown(renderIn.blocks[blockIdx])
       IN  md' = IF blockMd # << >> THEN md \o blockMd \o << NL >> ELSE md
    /\ blockIdx' = blockIdx + 1
    /\ UNCHANGED << pc, renderIn, markdown, part, orchVars, splitVars, clientVars,
                    tagVars, sanVars >>

\* BlocksToMarkdown, line 341: return strings.TrimSpace(md.String()), nil
ReturnMarkdown ==
    /\ pc = "blocks"
    /\ blockIdx > Len(renderIn.blocks)
    /\ markdown' = StringsTrimSpace(md)
    /\ pc' = "rendered"
    /\ UNCHANGED << renderIn, md, blockIdx, part, orchVars, splitVars, clientVars,
                    tagVars, sanVars >>

NextRender == WriteTitle \/ WriteBlock \/ ReturnMarkdown

SpecRender == InitRender /\ [][NextRender]_vars

\* ------------------------------------------------- claims on the renderer

\* The source level of a heading block.
LevelOf(type) ==
    CASE type = "heading_1" -> 1 [] type = "heading_2" -> 2 [] type = "heading_3" -> 3

\* The blocks that render to empty text: a paragraph without text, a type
\* that is not supported, a block without the payload of its type.
RendersEmpty(block) ==
    \/ ~block.payload
    \/ block.Type = "image"
    \/ block.Type = "paragraph" /\ block.text = << >>

RECURSIVE WrittenFor(_, _)
\* What the blocks 1..i are to add to the output: for a heading block of
\* level k, k + 1 times '#', a space, its text and a blank line; nothing for
\* a block that renders to empty text.
WrittenFor(bs, i) ==
    IF i = 0 THEN << >>
    ELSE WrittenFor(bs, i - 1) \o
         (IF RendersEmpty(bs[i]) THEN << >>
          ELSE IF bs[i].Type \in {"heading_1", "heading_2", "heading_3"}
          THEN Rep("#", LevelOf(bs[i].Type) + 1) \o << SP >> \o bs[i].text
                   \o << NL, NL >>
          ELSE blockToMarkdown(bs[i]) \o << NL >>)

\* The number of lines of a text that start with "# ".
LevelOneLines(str) ==
    Cardinality({ i \in 1..(Len(str) - 1) :
                    /\ str[i] = "#"
                    /\ str[i + 1] = SP
                    /\ (i = 1 \/ str[i - 1] = NL) })

\* The lines starting with "# " that are no heading block's: the title line,
\* and the paragraphs and code blocks whose own text starts with "# ".
LevelOneLinesGiven(in) ==
    (IF in.pageTitle # << >> THEN 1 ELSE 0)
        + Cardinality({ j \in 1..Len(in.blocks) :
                          /\ in.blocks[j].Type \in {"paragraph", "code"}
                          /\ in.blocks[j].payload
                          /\ HasPrefix(in.blocks[j].text, << "#", SP >>) })

\* C23: a heading block of source level k is written as a heading of level
\* k + 1, so that no line starting with "# " comes from a heading block: the
\* title line is the only one the renderer writes; and a block that renders
\* to empty text adds nothing to the output.
C23_HeadingsShiftedEmptyBlocksDropped ==
    /\ pc = "blocks" =>
           \E head \in { SubSeq(md, 1, n) : n \in 0..Len(md) } :
               /\ md = head \o WrittenFor(renderIn.blocks, blockIdx - 1)
               /\ LevelOneLines(head) = IF renderIn.pageTitle # << >> THEN 1 ELSE 0
    /\ pc = "rendered" =>
           /\ LevelOneLines(markdown) = LevelOneLinesGiven(renderIn)
           /\ renderIn.pageTitle # << >> =>
                  HasPrefix(markdown, << "#", SP >> \o renderIn.pageTitle \o << NL >>)

\* A page with a title, a level-1 heading and an empty paragraph is rendered:
\* the text ends with the level-2 heading.
C23_Witness ==
    /\ pc = "rendered"
    /\ renderIn.pageTitle = << "T" >>
    /\ Len(renderIn.blocks) = 2
    /\ renderIn.blocks[1].Type = "heading_1"
    /\ renderIn.blocks[1].text = << "x" >>
    /\ RendersEmpty(renderIn.blocks[2])
    /\ HasSuffix(markdown, << NL, NL, "#", "#", SP, "x" >>)
    /\ LevelOneLines(markdown) = 1

\* ------------------------------------------------- claims on dry runs and resume

\* C24: a dry run records the documents it handles as a real run does: every
\* document its loop has left is in the ProcessedSet, in memory and in the
\* state file; and a run with Resume=true that is no dry run leaves out every
\* document the state file held when it started, fetching and dispatching
\* nothing for it, whether or not the target holds a note of it.
C24_DryRunRecordsAndResumeSkips ==
    /\ (opts.dryRun /\ InLoop) =>
           \A id \in Completed : id \in state /\ id \in LoadState(stateFile)
    /\ (opts.dryRun /\ pc = "done") =>
           \A j \in 1..Len(pages) :
               pages[j].ID \in state /\ pages[j].ID \in LoadState(stateFile)
    /\ (opts.Resume /\ ~opts.dryRun) =>
           \A i \in loaded :
               /\ \A j \in 1..Len(pages) : pages[j].ID # i
               /\ \A j \in 1..Len(fetched) : fetched[j] # i
               /\ sent[i] = 0

\* A real run with Resume=true has ended after a dry run: a document with
\* content was left out although the target holds no note of it.
C24_Witness ==
    /\ run = 2
    /\ opts.Resume
    /\ ~opts.dryRun
    /\ pc = "done"
    /\ outputDir # {}
    /\ \E i \in loaded :
           /\ docs[i].parts > 0
           /\ \A k \in 1..MaxParts : memos[<< i, k >>] = 0

\* ------------------------------------------------- claims on failed dispatch

\* The documents a run with these options is to take up: those of the title
\* filter that the state file did not hold.
PassesTitleFilter(doc) ==
    Len(opts.FilterTitles) = 0 \/ doc.Title \in TitleSet(opts.FilterTitles)

\* C25: dispatch is never rolled back.  No step takes a note away from the
\* target; when dispatching a part fails, with the note created or not, the
\* ProcessedSet stays as it is, in memory and in the state file, and does not
\* hold the document unless it did when the run started; a run with
\* Resume=true takes up every document of its title filter that the state
\* file does not hold, and every document taken up is dispatched from part 1
\* to its last part.
C25_DispatchNeverRolledBack ==
    [][/\ \A n \in Notes : memos'[n] >= memos[n]
       /\ (pc = "dispatch" /\ pc' = "failed") =>
              /\ state' = state
              /\ stateFile' = stateFile
              /\ pages[idx].ID \notin loaded =>
                     /\ pages[idx].ID \notin state'
                     /\ pages[idx].ID \notin LoadState(stateFile')
       /\ (pc = "search" /\ pc' # "failed" /\ opts.Resume) =>
              \A i \in 1..Len(docs) :
                  (docs[i].ID \notin loaded /\ PassesTitleFilter(docs[i])) =>
                      \E j \in 1..Len(pages') : pages'[j] = docs[i]
       /\ (pc = "fetch" /\ pc' = "dispatch") => part' = 1
       /\ (pc = "dispatch" /\ pc' = "mark") =>
              sent'[pages[idx].ID] = pages[idx].parts]_vars

\* The second part of a document failed in the first run; the run with
\* Resume=true after it dispatched both parts, and the target holds the first
\* part twice.
C25_Witness ==
    /\ run = 2
    /\ opts.Resume
    /\ ~opts.dryRun
    /\ pc = "done"
    /\ \E i \in 1..Len(docs) :
           /\ i \notin loaded
           /\ docs[i].parts = 2
           /\ memos[<< i, 1 >>] = 2
           /\ memos[<< i, 2 >>] >= 1

\* ------------------------------------------------- the chunking loop, stepped

\* createSplitMemos, lines 195-196: remaining := content, no parts yet.
InitChunk ==
    /\ splitIn \in SplitInputs
    /\ remaining = splitIn.content
    /\ chunks = << >>
    /\ delivered = << >>
    /\ pc = "chunking"
    /\ part = 0
    /\ docs = << >>
    /\ stateFile = NoFile
    /\ outputDir = {}
    /\ memos = [n \in Notes |-> 0]
    /\ run = 0
    /\ opts = NoOpts
    /\ state = {}
    /\ pages = << >>
    /\ idx = 0
    /\ loaded = {}
    /\ fetched = << >>
    /\ sent = [i \in DocIds |-> 0]
    /\ err = ""
    /\ prev = NoRun
    /\ ClientIdle
    /\ TagsIdle
    /\ SanitizerIdle
    /\ RendererIdle

\* createSplitMemos, lines 199-218: one turn of the loop.  The part before
\* the breaking point is appended; remaining goes on behind it, without its
\* leading newlines and spaces.
CutChunk ==
    /\ pc = "chunking"
    /\ Len(remaining) > safeChunkSize
    /\ LET breakPoint == BreakPoint(remaining)
       IN  /\ chunks' = Append(chunks, SubSeq(remaining, 1, breakPoint))
           /\ remaining' =
                  TrimLeading(SubSeq(remaining, breakPoint + 1, Len(remaining)))
    /\ UNCHANGED << pc, part, splitIn, delivered, orchVars, clientVars, tagVars,
                    sanVars, renderVars >>

\* createSplitMemos, lines 199 and 220-223: the loop ends and what remains,
\* if anything, is the final part.
AddFinalPart ==
    /\ pc = "chunking"
    /\ Len(remaining) <= safeChunkSize
    /\ chunks' = IF Len(remaining) > 0 THEN Append(chunks, remaining) ELSE chunks
    /\ pc' = "chunked"
    /\ UNCHANGED << part, splitIn, delivered, remaining, orchVars, clientVars,
                    tagVars, sanVars, renderVars >>

NextChunk == CutChunk \/ AddFinalPart

SpecChunk == InitChunk /\ [][NextChunk]_vars

\* The loop goes on: the next statement runs.
SpecChunkFair == SpecChunk /\ WF_vars(NextChunk)

\* ------------------------------------------------- claims on the chunking loop

\* The positions after position 0 and up to the safe boundary where str has
\* a newline; str[p + 1] is Go's str[p].
NewlinesInRange(str) == { p \in 1..safeChunkSize : str[p + 1] = NL }

\* A step that cuts a chunk c off the text: c is a prefix of the text, not
\* empty and no longer than 7992; it ends before the last newline in range,
\* or at 7992 when there is none; what remains is shorter, and is an end of
\* the text.
GoodCut ==
    chunks' # chunks /\ pc' = "chunking" =>
        LET c == chunks'[Len(chunks')]
            nl == NewlinesInRange(remaining)
        IN  /\ Len(c) >= 1
            /\ Len(c) <= memosMaxLength - 200
            /\ c = SubSeq(remaining, 1, Len(c))
            /\ IF nl = {} THEN Len(c) = memosMaxLength - 200
               ELSE Len(c) \in nl /\ \A p \in nl : p <= Len(c)
            /\ Len(remaining') < Len(remaining)
            /\ Len(remaining') >= 1
            /\ remaining' = SubSeq(remaining, Len(remaining) - Len(remaining') + 1,
                                   Len(remaining))

\* The parts at the end of the loop: two or more, none empty, none longer
\* than 7992.
GoodParts ==
    pc = "chunked" =>
        /\ Len(chunks) >= 2
        /\ \A i \in 1..Len(chunks) :
               Len(chunks[i]) >= 1 /\ Len(chunks[i]) <= memosMaxLength - 200

\* C26: for every rendered text longer than 8192 characters the chunking
\* loop ends; every cut takes at least one character, every chunk is not
\* empty and at most 7992 characters long, the cut is at the last newline at
\* or before position 7992, or hard at 7992 when there is no newline after
\* position 0 in that range, and there are two parts or more.
C26_ChunkingEndsWithGoodParts ==
    /\ [][GoodCut]_vars
    /\ []GoodParts
    /\ <>(pc = "chunked")

\* A text of three parts: one cut at a newline, one hard cut.
C26_Witness ==
    /\ pc = "chunked"
    /\ Len(chunks) = 3
    /\ \E i \in 1..2 : Len(chunks[i]) = safeChunkSize
    /\ \E i \in 1..2 : Len(chunks[i]) < safeChunkSize

\* ------------------------------------------------- a source that leaves out the cursor

\* Largest number of requests after which the source still answers without
\* a next cursor.
MaxLoose == 3

\* One request of the loop, answered by a page of k items that reports
\* has_more = true and no next_cursor.
SendRequestNoCursor(k) ==
    /\ pc = "request"
    /\ Len(requests) < MaxLoose
    /\ k \in PageLengths(source, cursor)
    /\ requests' = Append(requests, cursor)
    /\ response' = [PageOf(source, cursor, k) EXCEPT
                        !.next_cursor = NoCursor, !.has_more = TRUE]
    /\ pc' = "response"
    /\ UNCHANGED << source, endpoint, cursor, allItems, part, orchVars, splitVars,
                    limitVars, tagVars, sanVars, renderVars >>

NextFetchLoose ==
    \/ \E k \in 0..MaxItems : SendRequest(k)
    \/ \E k \in 0..MaxItems : SendRequestNoCursor(k)
    \/ RequestFails
    \/ HandleResponse

\* SearchPages and RetrieveBlocks against a source that may report has_more
\* without a next cursor.
SpecFetchLoose == InitFetch /\ [][NextFetchLoose]_vars

\* ------------------------------------------------- claims on the cursor loop

\* The first request carries no cursor, and every later request carries the
\* next cursor of the response just before it.
CursorFollowed ==
    /\ requests # << >> => requests[1] = NoCursor
    /\ pc = "response" => requests[Len(requests)] = cursor
    /\ (pc = "request" /\ requests # << >>) => cursor = response.next_cursor

\* The fetch returns only on a response that reports has_more = false.
ReturnsOnLastPage == pc = "fetched" => ~response.has_more

\* The fetch gets on: no page of the source is asked for twice, so that a
\* source of finitely many pages is read to its end.
NoPageAskedTwice ==
    \A i, j \in 1..Len(requests) : i # j => requests[i] # requests[j]

\* C27: SearchPages and RetrieveBlocks send no cursor on the first request
\* and on every later request the next cursor of the response before it; the
\* fetch returns exactly on a response with has_more = false; and with a
\* source of finitely many pages it gets to the end, asking for no page
\* twice, also when a response reports has_more = true without a next cursor.
C27_CursorFollowedAndFetchEnds ==
    /\ CursorFollowed
    /\ ReturnsOnLastPage
    /\ NoPageAskedTwice

\* ------------------------------------------------- claims on the files of a dry run

RECURSIVE SentParts(_)
\* The number of parts this run dispatched for the documents 1..n.
SentParts(n) == IF n = 0 THEN 0 ELSE sent[n] + SentParts(n - 1)

\* C28: in a dry run every dispatched part is kept as a file of its own: in
\* a dry run that found the output directory empty, the directory holds as
\* many files as parts were dispatched, also when parts of different
\* documents have the same timestamp to the second.
C28_EveryPartKeepsItsFile ==
    (opts.dryRun /\ run = 1) => Cardinality(outputDir) = SentParts(MaxDocs)

====
